---- MODULE Spec2Model ----
(***************************************************************************)
(* The durable job pipeline of the document-processing service:            *)
(*   - the gateway   (backend/app/main.py: upload_pdf, update-status),     *)
(*   - the broker    (backend/app/services/redis_service.py: the Redis     *)
(*                    stream, its consumer group and the result keys),     *)
(*   - the worker    (backend/app/consumers/pdf_consumer.py).              *)
(*                                                                         *)
(* Granularity: every `await` of the code is a suspension point.  One      *)
(* action is the completion of the awaited call (its effect on Redis or on *)
(* the register, or its failure) together with the local code that follows *)
(* it up to the next `await`.  A call that fails has no effect.            *)
(***************************************************************************)
EXTENDS Integers, Sequences, FiniteSets, TLC

\* ------------------------------------------------------------------ bounds
MaxUploads == 2     \* /upload-pdf requests in one behaviour
MaxDays == 3        \* the clock stops after this many times the time to live
MaxWrites == 2      \* direct writes of one result key in one behaviour
MaxLen == 2         \* length of the byte sequences submitted for the round trip

\* The service processes; each runs one consume_messages task (main.py:47) and
\* all read under the same group and consumer name (redis_service.py:13-14).
Consumers == {"w1", "w2"}
\* The process that API_BASE_URL names: it holds processing_status and serves
\* /upload-pdf and /update-status (pdf_consumer.py:19).
ApiHost == "w1"

\* ------------------------------------------------------------------ values
PENDING == "pending"
PROCESSING == "processing"
COMPLETED == "completed"
FAILED == "failed"
ProcessingStatus == {PENDING, PROCESSING, COMPLETED, FAILED}

PYPDF == "pypdf"
GEMINI_FLASH == "gemini_flash"
MISTRAL == "mistral"
ParserType == {PYPDF, GEMINI_FLASH, MISTRAL}

\* Strings the code inspects are sequences of characters.
DotPdf == <<".", "p", "d", "f">>
\* Inputs of /upload-pdf.
Filenames == { <<"a">> \o DotPdf, <<"a", ".", "t", "x", "t">> }
ParserInputs == {PYPDF, "bogus"}
Contents == { <<>>, <<37, 0>> }
\* str(e) of the exceptions process_pdf raises.
Errors == {"EOF marker not found"}

\* str.endswith
endswith(s, suffix) ==
    /\ Len(s) >= Len(suffix)
    /\ SubSeq(s, Len(s) - Len(suffix) + 1, Len(s)) = suffix

\* bytes.hex(): two lowercase digits per byte.
HexDigits == <<"0", "1", "2", "3", "4", "5", "6", "7",
               "8", "9", "a", "b", "c", "d", "e", "f">>

\* One digit for a byte below 16, as "%x" prints it.
RECURSIVE hex_unpadded(_)
hex_unpadded(bytes) ==
    IF bytes = <<>> THEN <<>>
    ELSE (IF Head(bytes) < 16
          THEN << HexDigits[Head(bytes) + 1] >>
          ELSE << HexDigits[(Head(bytes) \div 16) + 1],
                  HexDigits[(Head(bytes) % 16) + 1] >>) \o hex_unpadded(Tail(bytes))

RECURSIVE hex(_)
hex(bytes) ==
    IF bytes = <<>> THEN <<>>
    ELSE << HexDigits[(Head(bytes) \div 16) + 1],
            HexDigits[(Head(bytes) % 16) + 1] >> \o hex(Tail(bytes))

IsHexDigit(ch) == \E i \in 1..16 : HexDigits[i] = ch
DigitValue(ch) == (CHOOSE i \in 1..16 : HexDigits[i] = ch) - 1

\* bytes.fromhex() raises ValueError on an odd length or a non-hex character.
fromhex_raises(s) ==
    \/ Len(s) % 2 = 1
    \/ \E i \in 1..Len(s) : ~IsHexDigit(s[i])

RECURSIVE fromhex(_)
fromhex(s) ==
    IF Len(s) < 2 THEN <<>>
    ELSE << 16 * DigitValue(s[1]) + DigitValue(s[2]) >> \o fromhex(SubSeq(s, 3, Len(s)))

\* json.dumps / json.loads: a JSON text is either the encoding of an object or
\* not parseable.
json_dumps(obj) == [valid |-> TRUE, obj |-> obj]
json_loads_raises(text) == ~text.valid
json_loads(text) == text.obj

\* dict.get(key): the value, or None (here: absent).  `not v` is true for None
\* and for the empty string.
Falsy(d, key) == key \notin DOMAIN d \/ d[key] = <<>>

\* The entry is replaced by the request body (PUT instead of merge).
dict_replace(d, other) == other

\* dict.update(other)
dict_update(d, other) ==
    [k \in DOMAIN d \cup DOMAIN other |-> IF k \in DOMAIN other THEN other[k] ELSE d[k]]

NoMessage == [message_id |-> 0]

\* ------------------------------------------------------------------- state
VARIABLES
    processing_status,  \* main.py:41  job id -> status record (in memory, ApiHost)
    next_id,            \* number of uuid4 job ids generated so far
    inflight,           \* upload_pdf calls suspended in add_to_stream
    response,           \* the last HTTP response of the gateway
    stream,             \* Redis stream pdf_processing_stream: entry id = index
    last_delivered,     \* consumer group pdf_consumers: last-delivered-id
    pel,                \* consumer group pdf_consumers: pending entries list
    results,            \* Redis keys result:{processing_id}, with their expiry
    now,                \* the clock of the Redis server, in seconds
    pc,                 \* per consumer: the await it is suspended in
    local,              \* per consumer: the locals of _process_message
    running,            \* per consumer: PDFConsumer.running, the loop condition
    uploads,            \* number of /upload-pdf requests so far
    delivery_log,       \* history: the entry ids delivered, one per delivery
    acked,              \* history: entry ids an XACK removed from the PEL
    written,            \* history: per job id, the last result write and its time
    crashed_after_store \* history: entries whose consumer crashed between
                        \*   the result write and the acknowledgment

gateway == <<processing_status, next_id, uploads, inflight, response>>
broker == <<stream, last_delivered, pel, results, now>>
workers == <<pc, local, running>>
history == <<delivery_log, acked, written, crashed_after_store>>
vars == <<gateway, broker, workers, history>>

NoResponse == [status_code |-> 0]

Init ==
    /\ processing_status = << >>
    /\ next_id = 0
    /\ uploads = 0
    /\ inflight = {}
    /\ response = NoResponse
    /\ stream = << >>
    /\ last_delivered = 0
    /\ pel = {}
    /\ results = << >>
    /\ now = 0
    /\ pc = [c \in Consumers |-> "read"]
    /\ local = [c \in Consumers |-> NoMessage]
    /\ running = [c \in Consumers |-> TRUE]
    /\ delivery_log = << >>
    /\ acked = {}
    /\ written = << >>
    /\ crashed_after_store = {}

\* ------------------------------------------------------- store primitives
\* d[key] = value on a dict (the key is added when new).
Put(d, key, value) ==
    [k \in DOMAIN d \cup {key} |-> IF k = key THEN value ELSE d[k]]

\* XADD (redis_service.py:67): the entry gets the next id of the stream.
xadd(s, fields) == Append(s, fields)

\* The read asks for id "0" instead of ">": the group answers with the pending
\* entries of the consumer name, which all instances share.
xreadgroup_pending(count) ==
    IF pel # {}
    THEN { id \in pel : \A other \in pel : id <= other }
    ELSE { id \in 1..Len(stream) : last_delivered < id /\ id <= last_delivered + count }

\* The read ignores the group's last-delivered-id: every entry that is not
\* pending counts as new, the acknowledged ones included.
xreadgroup_from_start(count) ==
    LET fresh == { id \in 1..Len(stream) : id \notin pel } IN
    { id \in fresh : \A other \in fresh : id <= other }

\* The group hands out the next entry only when no entry is pending.
xreadgroup_in_order(count) ==
    IF pel # {}
    THEN {}
    ELSE { id \in 1..Len(stream) : last_delivered < id /\ id <= last_delivered + count }

\* XREADGROUP pdf_consumers pdf_consumer_1 COUNT 1 STREAMS ... ">"
\* (redis_service.py:80-86): the entries never delivered to the group, oldest
\* first, at most `count` of them.  The ids of the PEL are not among them.
xreadgroup(count) ==
    { id \in 1..Len(stream) : last_delivered < id /\ id <= last_delivered + count }

\* XACK (redis_service.py:99-103): removes the id from the PEL of the group.
xack(p, message_id) == p \ {message_id}

\* The time to live is taken as milliseconds (PSETEX).
psetex(r, key, seconds, value, t) ==
    Put(r, key, [value |-> value, expire_at |-> t + (seconds \div 1000)])

\* The write is refused when the key is there (SET ... NX).
setnx(r, key, seconds, value, t) ==
    IF key \in DOMAIN r /\ t < r[key].expire_at
    THEN r
    ELSE Put(r, key, [value |-> value, expire_at |-> t + seconds])

\* SETEX key seconds value (redis_service.py:113-114) at time t: an
\* unconditional write; the key lives until t + seconds.
setex(r, key, seconds, value, t) ==
    Put(r, key, [value |-> value, expire_at |-> t + seconds])

\* Python's None.
None == [none |-> TRUE]

\* An expired key still answers, with a value that says so.
redis_get_tombstone(r, key, t) ==
    IF key \in DOMAIN r
    THEN IF t < r[key].expire_at THEN r[key].value
         ELSE [valid |-> TRUE, obj |-> [expired |-> TRUE]]
    ELSE [none |-> TRUE]

\* GET key (redis_service.py:126) at time t: the value, or None for a key
\* that was never written or whose time to live has elapsed.
redis_get(r, key, t) ==
    IF key \in DOMAIN r /\ t < r[key].expire_at THEN r[key].value ELSE None

\* pdf_consumer.py:147: the time to live of a result key, in seconds.
expire_seconds == 86400

\* History: the number of result writes done for a job id.
Writes(processing_id) ==
    IF processing_id \in DOMAIN written THEN written[processing_id].writes ELSE 0

\* RedisService.store_result, redis_service.py:107-117: SETEX of the JSON text
\* of data under result:{processing_id}; a failure is re-raised to the caller
\* and writes nothing.
store_result(processing_id, data, seconds, ok) ==
    /\ results' = IF ok
                  THEN setex(results, processing_id, seconds, json_dumps(data), now)
                  ELSE results
    /\ written' = IF ok
                  THEN Put(written, processing_id,
                           [data |-> data, at |-> now,
                            writes |-> Writes(processing_id) + 1])
                  ELSE written

\* RedisService.get_result, redis_service.py:119-130: the decoded record, or
\* None when the key is absent or the read fails.
get_result(r, processing_id, t, ok) ==
    IF ~ok THEN None
    ELSE LET data == redis_get(r, processing_id, t) IN
         IF data = None THEN None ELSE json_loads(data)

\* ---------------------------------------------------------------- gateway
UploadMessage(parser) ==
    <<"PDF uploaded and queued for processing with ", parser, " parser">>

\* The register write done after the append, too late for the response.
register_pending_late(ps, processing_id, filename, parser) == ps

\* main.py:76-81: the register with the new job's `pending` entry.
register_pending(ps, processing_id, filename, parser) ==
    Put(ps, processing_id,
        [status |-> PENDING, filename |-> filename,
         parser |-> parser, message |-> UploadMessage(parser)])

\* An unknown id gets an entry made of the status_data.
update_processing_status_upsert(ps, processing_id, status_data) ==
    IF processing_id \in DOMAIN ps
    THEN [ps EXCEPT ![processing_id] = dict_update(ps[processing_id], status_data)]
    ELSE Put(ps, processing_id, status_data)

\* POST /update-status/{processing_id} (main.py:147-157): the register after
\* the request.  An unknown id is answered 404 and changes nothing.
update_processing_status(ps, processing_id, status_data) ==
    IF processing_id \in DOMAIN ps
    THEN [ps EXCEPT ![processing_id] = dict_update(ps[processing_id], status_data)]
    ELSE ps

\* The job id is generated before the filename is looked at.
upload_pdf_id_first(filename, content, parser) ==
    /\ pc[ApiHost] # "down"
    /\ uploads < MaxUploads
    /\ uploads' = uploads + 1
    /\ IF parser \notin ParserType
       THEN /\ response' = [status_code |-> 422]
            /\ UNCHANGED <<processing_status, next_id, inflight>>
       ELSE IF ~endswith(filename, DotPdf)
       THEN /\ response' = [status_code |-> 400]
            /\ next_id' = next_id + 1
            /\ UNCHANGED <<processing_status, inflight>>
       ELSE /\ LET processing_id == next_id + 1 IN
               /\ next_id' = processing_id
               /\ processing_status' =
                      register_pending(processing_status, processing_id, filename, parser)
               /\ inflight' = inflight \cup
                      {[processing_id |-> processing_id, filename |-> filename,
                        content |-> content, parser |-> parser]}
            /\ UNCHANGED response
    /\ UNCHANGED <<broker, workers, history>>

\* POST /upload-pdf, main.py:59-81: validation, job id, register write; the
\* handler then suspends in add_to_stream.
upload_pdf(filename, content, parser) ==
    /\ pc[ApiHost] # "down"
    /\ uploads < MaxUploads
    /\ uploads' = uploads + 1
    /\ IF parser \notin ParserType
       THEN \* parser: ParserType = Form(...) is validated by the framework
            /\ response' = [status_code |-> 422]
            /\ UNCHANGED <<processing_status, next_id, inflight>>
       ELSE IF ~endswith(filename, DotPdf)
       THEN /\ response' = [status_code |-> 400]
            /\ UNCHANGED <<processing_status, next_id, inflight>>
       ELSE /\ LET processing_id == next_id + 1 IN
               /\ next_id' = processing_id
               /\ processing_status' =
                      register_pending(processing_status, processing_id, filename, parser)
               /\ inflight' = inflight \cup
                      {[processing_id |-> processing_id, filename |-> filename,
                        content |-> content, parser |-> parser]}
            /\ UNCHANGED response
    /\ UNCHANGED <<broker, workers, history>>

\* A failed append rolls the register write back.
add_to_stream_rollback(req, ok) ==
    /\ req \in inflight
    /\ inflight' = inflight \ {req}
    /\ IF ok
       THEN /\ stream' = xadd(stream,
                   [processing_id |-> req.processing_id,
                    data |-> json_dumps([filename |-> req.filename,
                                         content |-> hex(req.content),
                                         processing_id |-> req.processing_id,
                                         parser |-> req.parser])])
            /\ response' = [status_code |-> 200,
                            processing_id |-> req.processing_id,
                            status |-> PENDING,
                            message |-> UploadMessage(req.parser),
                            parser |-> req.parser]
            /\ UNCHANGED processing_status
       ELSE /\ stream' = stream
            /\ response' = [status_code |-> 500]
            /\ processing_status' =
                  [id \in DOMAIN processing_status \ {req.processing_id} |->
                      processing_status[id]]
    /\ UNCHANGED <<next_id, uploads, last_delivered, pel, results, now, workers, history>>

\* main.py:84-96 with redis_service.py:56-72: the XADD completes.  On success
\* the entry is in the stream and the handler returns the job id; on failure
\* the exception propagates (HTTP 500) and nothing is rolled back.
add_to_stream(req, ok) ==
    /\ req \in inflight
    /\ inflight' = inflight \ {req}
    /\ IF ok
       THEN /\ stream' = xadd(stream,
                   [processing_id |-> req.processing_id,
                    data |-> json_dumps([filename |-> req.filename,
                                         content |-> hex(req.content),
                                         processing_id |-> req.processing_id,
                                         parser |-> req.parser])])
            /\ response' = [status_code |-> 200,
                            processing_id |-> req.processing_id,
                            status |-> PENDING,
                            message |-> UploadMessage(req.parser),
                            parser |-> req.parser]
       ELSE /\ stream' = stream
            /\ response' = [status_code |-> 500]
    /\ UNCHANGED <<processing_status, next_id, uploads, last_delivered, pel,
                   results, now, workers, history>>

\* The answer of GET /results/{processing_id}, main.py:123-145: the record's
\* fields under 200, or 404 when get_result gave nothing.
get_processing_results_response(r, processing_id, t, ok) ==
    LET res == get_result(r, processing_id, t, ok) IN
    IF res = None
    THEN [status_code |-> 404, detail |-> "Results not found or expired"]
    ELSE [status_code |-> 200,
          processing_id |-> processing_id,
          markdown |-> res.markdown,
          summary |-> res.summary,
          parser_used |-> res.parser_used,
          filename |-> res.filename]

\* GET /results/{processing_id}: reads, writes nothing.
get_processing_results(processing_id, ok) ==
    /\ pc[ApiHost] # "down"
    /\ response' = get_processing_results_response(results, processing_id, now, ok)
    /\ UNCHANGED <<processing_status, next_id, uploads, inflight,
                   broker, workers, history>>

\* GET /status/{processing_id}, main.py:98-111: 404 for an id that is not in
\* the register, else the stored status; reads, writes nothing.
get_processing_status(processing_id) ==
    /\ pc[ApiHost] # "down"
    /\ response' =
          IF processing_id \notin DOMAIN processing_status
          THEN [status_code |-> 404, detail |-> "Processing ID not found"]
          ELSE LET status_data == processing_status[processing_id] IN
               [status_code |-> 200,
                processing_id |-> processing_id,
                status |-> status_data.status,
                message |-> status_data.message]
    /\ UNCHANGED <<processing_status, next_id, uploads, inflight,
                   broker, workers, history>>

\* ----------------------------------------------------------------- worker
\* The loop goes round whatever the flag says.
while_true(c) == "read"

\* pdf_consumer.py:26, `while self.running`: where the loop goes when an
\* iteration is over: to the next read, or out of consume_messages
\* ("returned") once stop() has cleared the flag.
while_running(c) == IF running[c] THEN "read" ELSE "returned"

\* The parser named in the payload is ignored: always the baseline parser.
decode_default_parser(message_id, fields) ==
    LET base == [message_id |-> message_id, sent |-> << >>] IN
    IF "processing_id" \notin DOMAIN fields \/ "data" \notin DOMAIN fields
    THEN base @@ [path |-> "drop"]
    ELSE LET withid == base @@ [processing_id |-> fields.processing_id] IN
    IF json_loads_raises(fields.data)
    THEN withid @@ [path |-> "failed", e |-> "Expecting value"]
    ELSE LET data == json_loads(fields.data) IN
    IF Falsy(data, "filename") \/ Falsy(data, "content")
    THEN withid @@ [path |-> "drop"]
    ELSE IF fromhex_raises(data.content)
    THEN withid @@ [path |-> "failed", e |-> "non-hexadecimal number found"]
    ELSE withid @@ [path |-> "ok", filename |-> data.filename,
                    pdf_content |-> fromhex(data.content), parser |-> PYPDF]

\* _process_message, pdf_consumer.py:44-67: the synchronous decoding of a
\* delivered entry, up to the first await.  The locals it leaves, with
\*   path "drop"   : lines 49-51 and 63-65, acknowledge and return;
\*   path "failed" : an exception reached line 122 (json.loads, bytes.fromhex);
\*   path "ok"     : line 70, the status update to `processing` is sent.
\* The ids the gateway generates are never the empty string.  `sent` is
\* history: the status_data of the update-status requests sent for the entry.
decode(message_id, fields) ==
    LET base == [message_id |-> message_id, sent |-> << >>] IN
    IF "processing_id" \notin DOMAIN fields \/ "data" \notin DOMAIN fields
    THEN base @@ [path |-> "drop"]
    ELSE LET withid == base @@ [processing_id |-> fields.processing_id] IN
    IF json_loads_raises(fields.data)
    THEN withid @@ [path |-> "failed", e |-> "Expecting value"]
    ELSE LET data == json_loads(fields.data)
             parser_str == IF "parser" \in DOMAIN data THEN data.parser ELSE PYPDF
             parser == IF parser_str \in ParserType THEN parser_str ELSE PYPDF
         IN
    IF Falsy(data, "filename") \/ Falsy(data, "content")
    THEN withid @@ [path |-> "drop"]
    ELSE IF fromhex_raises(data.content)
    THEN withid @@ [path |-> "failed", e |-> "non-hexadecimal number found"]
    ELSE withid @@ [path |-> "ok", filename |-> data.filename,
                    pdf_content |-> fromhex(data.content), parser |-> parser]

\* The await _process_message suspends in after decoding.
after_decode(l) ==
    CASE l.path = "ok" -> "status_processing"
      [] l.path = "failed" -> "status_failed"
      [] OTHER -> "ack"

\* pdf_consumer.py:133-142 with main.py:147-157: one POST /update-status.  When
\* the request does not get through (ok = FALSE) the exception is logged and
\* swallowed; a 404 answer is logged and ignored as well.
_update_status(c, processing_id, status_data, ok) ==
    /\ ok => pc[ApiHost] # "down"
    /\ processing_status' =
          IF ok THEN update_processing_status(processing_status, processing_id, status_data)
          ELSE processing_status
    /\ local' = [local EXCEPT ![c] =
                    [sent |-> Append(local[c].sent, status_data)] @@ local[c]]
    /\ UNCHANGED running

\* The read asks for two entries (count=2) and the loop handles the first
\* while the second waits in the batch.
read_messages_batch(c, ok) ==
    /\ pc[c] = "read"
    /\ LET messages == IF ok THEN xreadgroup(2) ELSE {} IN
       IF messages = {}
       THEN UNCHANGED <<pc, local, last_delivered, pel, delivery_log>>
       ELSE LET message_id == CHOOSE id \in messages : \A other \in messages : id <= other
                l == decode(message_id, stream[message_id])
            IN
            /\ last_delivered' = last_delivered + Cardinality(messages)
            /\ pel' = pel \cup messages
            /\ delivery_log' =
                  IF Cardinality(messages) = 1
                  THEN Append(delivery_log, message_id)
                  ELSE delivery_log \o <<message_id, message_id + 1>>
            /\ local' = [local EXCEPT ![c] = l]
            /\ pc' = [pc EXCEPT ![c] = after_decode(l)]
    /\ UNCHANGED <<gateway, stream, results, now, acked, written, crashed_after_store>>
    /\ UNCHANGED running

\* consume_messages, pdf_consumer.py:26-36 with redis_service.py:74-91: the
\* XREADGROUP completes.  A failed read returns [] like an empty one; the loop
\* then sleeps one second and reads again, which changes nothing here.  A
\* delivered entry enters the PEL and is decoded.
read_messages(c, ok) ==
    /\ pc[c] = "read"
    /\ LET messages == IF ok THEN xreadgroup(1) ELSE {} IN
       IF messages = {}
       THEN /\ pc' = [pc EXCEPT ![c] = while_running(c)]
            /\ UNCHANGED <<local, last_delivered, pel, delivery_log>>
       ELSE LET message_id == CHOOSE id \in messages : TRUE
                l == decode(message_id, stream[message_id])
            IN
            /\ last_delivered' = IF message_id > last_delivered
                                 THEN message_id ELSE last_delivered
            /\ pel' = pel \cup {message_id}
            /\ delivery_log' = Append(delivery_log, message_id)
            /\ local' = [local EXCEPT ![c] = l]
            /\ pc' = [pc EXCEPT ![c] = after_decode(l)]
    /\ UNCHANGED <<gateway, stream, results, now, acked, written, crashed_after_store>>
    /\ UNCHANGED running

ProcessingMessage == "Processing PDF..."

\* A `processing` update that fails is not swallowed: the exception reaches
\* the handler of line 122 and the strategy is not invoked.
status_processing_raise(c, ok) ==
    /\ pc[c] = "status_processing"
    /\ ok => pc[ApiHost] # "down"
    /\ processing_status' =
          IF ok THEN update_processing_status(processing_status, local[c].processing_id,
                        [status |-> PROCESSING, message |-> ProcessingMessage])
          ELSE processing_status
    /\ local' = [local EXCEPT ![c] =
                    IF ok
                    THEN [sent |-> Append(local[c].sent,
                                     [status |-> PROCESSING,
                                      message |-> ProcessingMessage])] @@ local[c]
                    ELSE [path |-> "failed", e |-> "Cannot connect to host"] @@ local[c]]
    /\ pc' = [pc EXCEPT ![c] = IF ok THEN "process_pdf" ELSE "status_failed"]
    /\ UNCHANGED <<next_id, uploads, inflight, response, broker, history>>
    /\ UNCHANGED running

\* pdf_consumer.py:69-76: the `processing` update completes, process_pdf starts.
status_processing(c, ok) ==
    /\ pc[c] = "status_processing"
    /\ _update_status(c, local[c].processing_id,
                      [status |-> PROCESSING, message |-> ProcessingMessage], ok)
    /\ pc' = [pc EXCEPT ![c] = "process_pdf"]
    /\ UNCHANGED <<next_id, uploads, inflight, response, broker, history>>
    /\ UNCHANGED running

\* What the strategy does is outside the pipeline: it returns a
\* ProcessingResult or raises (pdf_processor.py:209-237).
ProcessingResult(l) ==
    [extraction |-> [text |-> l.pdf_content, markdown |-> l.pdf_content,
                     parser_used |-> l.parser],
     analysis |-> [summary |-> "summary"],
     processing_time |-> 1,
     filename |-> l.filename,
     parser_used |-> l.parser]

\* pdf_consumer.py:76-92 and 122-129: process_pdf returns or raises.  On
\* success the texts are cleaned and the result write is sent; on failure the
\* `failed` update is sent.
process_pdf(c, ok, err) ==
    /\ pc[c] = "process_pdf"
    /\ IF ok
       THEN /\ local' = [local EXCEPT ![c] = local[c] @@ [result |-> ProcessingResult(local[c])]]
            /\ pc' = [pc EXCEPT ![c] = "store_results"]
       ELSE /\ local' = [local EXCEPT ![c] = [path |-> "failed", e |-> err] @@ local[c]]
            /\ pc' = [pc EXCEPT ![c] = "status_failed"]
    /\ UNCHANGED <<gateway, broker, history>>
    /\ UNCHANGED running

ResultRecord(result) ==
    [markdown |-> result.extraction.markdown,
     summary |-> result.analysis.summary,
     parser_used |-> result.parser_used,
     filename |-> result.filename]

\* The entry is acknowledged right after the result write: the `completed`
\* update is left out.
_store_results_in_redis_then_ack(c, ok) ==
    /\ pc[c] = "store_results"
    /\ store_result(local[c].processing_id, ResultRecord(local[c].result),
                    expire_seconds, ok)
    /\ pc' = [pc EXCEPT ![c] = "ack"]
    /\ UNCHANGED <<gateway, stream, last_delivered, pel, now, local,
                   delivery_log, acked, crashed_after_store>>
    /\ UNCHANGED running

\* pdf_consumer.py:85-92 and 144-149 with redis_service.py:107-117: the SETEX
\* completes; a failure is logged and swallowed.  The `completed` update is
\* sent next.
_store_results_in_redis(c, ok) ==
    /\ pc[c] = "store_results"
    /\ store_result(local[c].processing_id, ResultRecord(local[c].result),
                    expire_seconds, ok)
    /\ pc' = [pc EXCEPT ![c] = "status_completed"]
    /\ UNCHANGED <<gateway, stream, last_delivered, pel, now, local,
                   delivery_log, acked, crashed_after_store>>
    /\ UNCHANGED running

CompletedMessage == "PDF processing completed successfully"

\* The `completed` update writes the record once more.
status_completed_rewrite(c, ok) ==
    /\ pc[c] = "status_completed"
    /\ _update_status(c, local[c].processing_id,
                      [status |-> COMPLETED, message |-> CompletedMessage,
                       parser |-> local[c].result.parser_used,
                       result |-> local[c].result], ok)
    /\ store_result(local[c].processing_id, ResultRecord(local[c].result),
                    expire_seconds, TRUE)
    /\ pc' = [pc EXCEPT ![c] = "ack"]
    /\ UNCHANGED <<next_id, uploads, inflight, response, stream, last_delivered,
                   pel, now, delivery_log, acked, crashed_after_store>>
    /\ UNCHANGED running

\* The acknowledgment that follows raises, so that the handler of line 122
\* reports `failed` for a job already reported `completed`.
status_completed_then_except(c, ok) ==
    /\ pc[c] = "status_completed"
    /\ ok => pc[ApiHost] # "down"
    /\ processing_status' =
          IF ok THEN update_processing_status(processing_status, local[c].processing_id,
                        [status |-> COMPLETED, message |-> CompletedMessage])
          ELSE processing_status
    /\ local' = [local EXCEPT ![c] = [path |-> "failed", e |-> "ack"] @@ local[c]]
    /\ pc' = [pc EXCEPT ![c] = "status_failed"]
    /\ UNCHANGED <<next_id, uploads, inflight, response, broker, history>>
    /\ UNCHANGED running

\* The `completed` update carries the status alone; the result would follow
\* in an update of its own.
status_completed_without_result(c, ok) ==
    /\ pc[c] = "status_completed"
    /\ _update_status(c, local[c].processing_id,
                      [status |-> COMPLETED, message |-> CompletedMessage,
                       parser |-> local[c].result.parser_used], ok)
    /\ pc' = [pc EXCEPT ![c] = "ack"]
    /\ UNCHANGED <<next_id, uploads, inflight, response, broker, history>>
    /\ UNCHANGED running

\* pdf_consumer.py:94-120: the `completed` update completes, the XACK is sent.
status_completed(c, ok) ==
    /\ pc[c] = "status_completed"
    /\ _update_status(c, local[c].processing_id,
                      [status |-> COMPLETED, message |-> CompletedMessage,
                       parser |-> local[c].result.parser_used,
                       result |-> local[c].result], ok)
    /\ pc' = [pc EXCEPT ![c] = "ack"]
    /\ UNCHANGED <<next_id, uploads, inflight, response, broker, history>>
    /\ UNCHANGED running

FailedMessage(e) == <<"Processing failed: ", e>>

\* After the `failed` update the entry is processed again.
status_failed_retry(c, ok) ==
    /\ pc[c] = "status_failed"
    /\ _update_status(c, local[c].processing_id,
                      [status |-> FAILED, message |-> FailedMessage(local[c].e)], ok)
    /\ pc' = [pc EXCEPT ![c] = IF "pdf_content" \in DOMAIN local[c]
                               THEN "status_processing" ELSE "ack"]
    /\ UNCHANGED <<next_id, uploads, inflight, response, broker, history>>
    /\ UNCHANGED running

\* pdf_consumer.py:122-131: the `failed` update completes, the XACK is sent.
status_failed(c, ok) ==
    /\ pc[c] = "status_failed"
    /\ _update_status(c, local[c].processing_id,
                      [status |-> FAILED, message |-> FailedMessage(local[c].e)], ok)
    /\ pc' = [pc EXCEPT ![c] = "ack"]
    /\ UNCHANGED <<next_id, uploads, inflight, response, broker, history>>
    /\ UNCHANGED running

\* A failed XACK is raised instead of swallowed: from the try block it lands
\* in the handler of line 122, which reports `failed`.
acknowledge_message_raise(c, ok) ==
    /\ pc[c] = "ack"
    /\ pel' = IF ok THEN xack(pel, local[c].message_id) ELSE pel
    /\ acked' = IF ok /\ local[c].message_id \in pel
                THEN acked \cup {local[c].message_id} ELSE acked
    /\ IF ~ok /\ local[c].path = "ok"
       THEN /\ local' = [local EXCEPT ![c] =
                            [path |-> "failed", e |-> "Connection closed"] @@ local[c]]
            /\ pc' = [pc EXCEPT ![c] = "status_failed"]
       ELSE /\ local' = [local EXCEPT ![c] = NoMessage]
            /\ pc' = [pc EXCEPT ![c] = "read"]
    /\ UNCHANGED <<gateway, stream, last_delivered, results, now,
                   delivery_log, written, crashed_after_store>>
    /\ UNCHANGED running

\* redis_service.py:93-105, called at pdf_consumer.py:50, 64, 120 and 131: the
\* XACK completes (a failure is logged and swallowed), _process_message
\* returns and the loop reads again.
acknowledge_message(c, ok) ==
    /\ pc[c] = "ack"
    /\ pel' = IF ok THEN xack(pel, local[c].message_id) ELSE pel
    /\ acked' = IF ok /\ local[c].message_id \in pel
                THEN acked \cup {local[c].message_id} ELSE acked
    /\ local' = [local EXCEPT ![c] = NoMessage]
    /\ pc' = [pc EXCEPT ![c] = while_running(c)]
    /\ UNCHANGED <<gateway, stream, last_delivered, results, now,
                   delivery_log, written, crashed_after_store>>
    /\ UNCHANGED running

\* ------------------------------------------------------- crash and restart
\* Process p dies and is started again (main.py:36-47): its consumer task
\* starts its loop anew, and for the process that serves the API the
\* module-level register is empty again and the suspended handlers are gone.
\* Redis keeps the stream, the group (xgroup_create answers BUSYGROUP,
\* redis_service.py:30-39) and the result keys.
\* The register outlives the process, as if it were kept outside of it.
crash_keeps_register(p) ==
    /\ pc[p] # "down"
    /\ crashed_after_store' =
          IF /\ pc[p] \in {"status_completed", "ack"}
             /\ local[p].path = "ok"
             /\ local[p].processing_id \in DOMAIN results
          THEN crashed_after_store \cup {local[p].message_id}
          ELSE crashed_after_store
    /\ pc' = [pc EXCEPT ![p] = "down"]
    /\ local' = [local EXCEPT ![p] = NoMessage]
    /\ inflight' = IF p = ApiHost THEN {} ELSE inflight
    /\ UNCHANGED <<processing_status, next_id, uploads, response, broker,
                   delivery_log, acked, written>>
    /\ UNCHANGED running

crash(p) ==
    /\ pc[p] # "down"
    /\ crashed_after_store' =
          IF /\ pc[p] \in {"status_completed", "ack"}
             /\ local[p].path = "ok"
             /\ local[p].processing_id \in DOMAIN results
          THEN crashed_after_store \cup {local[p].message_id}
          ELSE crashed_after_store
    /\ pc' = [pc EXCEPT ![p] = "down"]
    /\ local' = [local EXCEPT ![p] = NoMessage]
    /\ IF p = ApiHost
       THEN /\ processing_status' = << >>
            /\ inflight' = {}
       ELSE UNCHANGED <<processing_status, inflight>>
    /\ UNCHANGED <<next_id, uploads, response, broker, delivery_log, acked, written>>
    /\ UNCHANGED running

restart(p) ==
    /\ pc[p] = "down"
    /\ pc' = [pc EXCEPT ![p] = "read"]
    /\ running' = [running EXCEPT ![p] = TRUE]
    /\ UNCHANGED <<gateway, broker, local, history>>

\* ------------------------------------------------------------ specification
Next ==
    \/ \E f \in Filenames, b \in Contents, p \in ParserInputs : upload_pdf(f, b, p)
    \/ \E req \in inflight, ok \in BOOLEAN : add_to_stream(req, ok)
    \/ \E c \in Consumers, ok \in BOOLEAN : read_messages(c, ok)
    \/ \E c \in Consumers, ok \in BOOLEAN : status_processing(c, ok)
    \/ \E c \in Consumers, ok \in BOOLEAN, err \in Errors : process_pdf(c, ok, err)
    \/ \E c \in Consumers, ok \in BOOLEAN : _store_results_in_redis(c, ok)
    \/ \E c \in Consumers, ok \in BOOLEAN : status_completed(c, ok)
    \/ \E c \in Consumers, ok \in BOOLEAN : status_failed(c, ok)
    \/ \E c \in Consumers, ok \in BOOLEAN : acknowledge_message(c, ok)
    \/ \E p \in Consumers : crash(p)
    \/ \E p \in Consumers : restart(p)

Spec == Init /\ [][Next]_vars

\* The consumer loop runs for ever (pdf_consumer.py:26): a consumer that can
\* take a step eventually takes one, and a process that is down is eventually
\* started again (main.py:43-47).
Worker(c) ==
    \/ \E ok \in BOOLEAN : read_messages(c, ok)
    \/ \E ok \in BOOLEAN : status_processing(c, ok)
    \/ \E ok \in BOOLEAN, err \in Errors : process_pdf(c, ok, err)
    \/ \E ok \in BOOLEAN : _store_results_in_redis(c, ok)
    \/ \E ok \in BOOLEAN : status_completed(c, ok)
    \/ \E ok \in BOOLEAN : status_failed(c, ok)
    \/ \E ok \in BOOLEAN : acknowledge_message(c, ok)

FairSpec == Spec /\ \A c \in Consumers : WF_vars(Worker(c)) /\ WF_vars(restart(c))

\* The run the spec's first scenario describes: valid submissions, the
\* broker, the result store and the status endpoint answer every call, the
\* strategy returns, no process dies, and clients read results.  Every
\* handler that is suspended and every consumer loop eventually goes on.
ValidFilenames == { f \in Filenames : endswith(f, DotPdf) }
ValidContents == Contents \ { << >> }
ValidParsers == {PYPDF, GEMINI_FLASH}

HappyWorker(c) ==
    \/ read_messages(c, TRUE)
    \/ status_processing(c, TRUE)
    \/ \E err \in Errors : process_pdf(c, TRUE, err)
    \/ _store_results_in_redis(c, TRUE)
    \/ status_completed(c, TRUE)
    \/ acknowledge_message(c, TRUE)

HappyNext ==
    \/ \E f \in ValidFilenames, b \in ValidContents, p \in ValidParsers :
          upload_pdf(f, b, p)
    \/ \E req \in inflight : add_to_stream(req, TRUE)
    \/ \E c \in Consumers : HappyWorker(c)
    \/ \E id \in 1..MaxUploads : get_processing_results(id, TRUE)

HappySpec ==
    /\ Init
    /\ [][HappyNext]_vars
    /\ WF_vars(\E req \in inflight : add_to_stream(req, TRUE))
    /\ \A c \in Consumers : WF_vars(HappyWorker(c))

\* The result store on its own: store_result and GET /results called for any
\* key by any caller, while the clock of the Redis server advances.
Keys == {1, 2}
Records ==
    { ResultRecord(ProcessingResult([pdf_content |-> b, parser |-> p,
                                     filename |-> <<"a">> \o DotPdf])) :
        b \in ValidContents, p \in ValidParsers }
\* Time passes in steps that end one second before or after a time to live.
Delays == {expire_seconds - 1, expire_seconds + 1}

store(processing_id, data, ok) ==
    /\ Writes(processing_id) < MaxWrites
    /\ store_result(processing_id, data, expire_seconds, ok)
    /\ UNCHANGED <<gateway, stream, last_delivered, pel, now, workers,
                   delivery_log, acked, crashed_after_store>>

tick(d) ==
    /\ now + d <= MaxDays * expire_seconds
    /\ now' = now + d
    /\ UNCHANGED <<gateway, stream, last_delivered, pel, results, workers, history>>

StoreNext ==
    \/ \E id \in Keys, data \in Records, ok \in BOOLEAN : store(id, data, ok)
    \/ \E id \in Keys, ok \in BOOLEAN : get_processing_results(id, ok)
    \/ \E d \in Delays : tick(d)

StoreSpec == Init /\ [][StoreNext]_vars

\* One submission of arbitrary bytes, among them the null byte and bytes that
\* are not UTF-8, taken through the gateway and a worker.
Bytes == {0, 37, 128, 255}
ByteSeqs == UNION { [1..n -> Bytes] : n \in 0..MaxLen }

RoundTripNext ==
    \/ \E f \in ValidFilenames, b \in ByteSeqs :
          next_id = 0 /\ upload_pdf(f, b, PYPDF)
    \/ \E req \in inflight : add_to_stream(req, TRUE)
    \/ \E c \in Consumers : HappyWorker(c)

RoundTripSpec == Init /\ [][RoundTripNext]_vars

\* POST /update-status/{processing_id} sent by any HTTP client: the endpoint
\* is served like the others and checks nothing but the id (main.py:147-157).
update_status_request(processing_id, status_data) ==
    /\ pc[ApiHost] # "down"
    /\ processing_status' =
          update_processing_status(processing_status, processing_id, status_data)
    /\ response' =
          IF processing_id \in DOMAIN processing_status
          THEN [status_code |-> 200, message |-> "Status updated"]
          ELSE [status_code |-> 404, detail |-> "Processing ID not found"]
    /\ UNCHANGED <<next_id, uploads, inflight, broker, workers, history>>

OpenNext ==
    \/ Next
    \/ \E id \in 1..MaxUploads, s \in ProcessingStatus :
          update_status_request(id, [status |-> s])

OpenSpec == Init /\ [][OpenNext]_vars

\* The three endpoints that take a job id, called by clients with any id
\* while one valid submission goes through the pipeline and the processes
\* may die and come back.  The ids from 2 on are never generated.
QueryIds == 1..(MaxUploads + 1)

QueryNext ==
    \/ \E f \in ValidFilenames, b \in ValidContents, p \in ValidParsers :
          next_id = 0 /\ upload_pdf(f, b, p)
    \/ \E req \in inflight, ok \in BOOLEAN : add_to_stream(req, ok)
    \/ \E c \in Consumers : HappyWorker(c)
    \/ \E p \in Consumers : crash(p)
    \/ \E p \in Consumers : restart(p)
    \/ \E id \in QueryIds : get_processing_status(id)
    \/ \E id \in QueryIds, ok \in BOOLEAN : get_processing_results(id, ok)
    \/ \E id \in QueryIds : update_status_request(id, [status |-> FAILED])

QuerySpec == Init /\ [][QueryNext]_vars

\* The start of a process, main.py:43-47 with redis_service.py:16-43, while
\* the broker may be unreachable.  initialize() pings Redis and creates the
\* group; when that fails it logs and raises again, startup_event does not
\* catch it, the application start fails and the server process exits
\* ("exited") before the consumer task is created.  A supervisor may start
\* the process again.
startup_event(p, ok) ==
    /\ pc[p] \in {"down", "exited"}
    /\ pc' = [pc EXCEPT ![p] = IF ok THEN "read" ELSE "exited"]
    /\ running' = [running EXCEPT ![p] = ok \/ running[p]]
    /\ UNCHANGED <<gateway, broker, local, history>>

\* The life of the service with its starts: the pipeline of Next, where a
\* process that went down is started with startup_event.
LifeNext ==
    \/ \E f \in Filenames, b \in Contents, p \in ParserInputs : upload_pdf(f, b, p)
    \/ \E req \in inflight, ok \in BOOLEAN : add_to_stream(req, ok)
    \/ \E c \in Consumers : Worker(c)
    \/ \E p \in Consumers : crash(p)
    \/ \E p \in Consumers, ok \in BOOLEAN : startup_event(p, ok)

LifeSpec == Init /\ [][LifeNext]_vars

\* Submissions before and after restarts: valid uploads go through the
\* pipeline while the processes may die and come back and clients ask for
\* the status of any job.  The broker and the strategy answer every call; a
\* consumer loop that can go on eventually does, and a process that is down
\* is eventually started again.
RestartNext ==
    \/ \E f \in ValidFilenames, b \in ValidContents : upload_pdf(f, b, PYPDF)
    \/ \E req \in inflight : add_to_stream(req, TRUE)
    \/ \E c \in Consumers : HappyWorker(c)
    \/ \E p \in Consumers : crash(p)
    \/ \E p \in Consumers : restart(p)
    \/ \E id \in 1..MaxUploads : get_processing_status(id)

RestartSpec ==
    /\ Init
    /\ [][RestartNext]_vars
    /\ \A c \in Consumers : WF_vars(HappyWorker(c)) /\ WF_vars(restart(c))

\* Entries that reach the stream from a producer other than upload_pdf (the
\* worker guards against them, pdf_consumer.py:46-67): for a job id, the
\* field maps that lack a field, carry a text that is not JSON, lack the
\* filename or the content, or carry a content that is not hex.
NotJson == [valid |-> FALSE]
RawEntries(id) ==
    LET name == <<"a">> \o DotPdf IN
    { [data |-> json_dumps([filename |-> name, content |-> hex(<<37>>)])],
      [processing_id |-> id],
      [processing_id |-> id, data |-> NotJson],
      [processing_id |-> id, data |-> json_dumps([content |-> hex(<<37>>)])],
      [processing_id |-> id, data |-> json_dumps([filename |-> name])],
      [processing_id |-> id, data |-> json_dumps([filename |-> name,
                                                  content |-> <<"z", "z">>])],
      [processing_id |-> id, data |-> json_dumps([filename |-> name,
                                                  content |-> <<"2", "5", "0">>])] }

\* XADD pdf_processing_stream sent to Redis by such a producer.
xadd_raw(fields) ==
    /\ Len(stream) < MaxUploads
    /\ stream' = xadd(stream, fields)
    /\ UNCHANGED <<gateway, last_delivered, pel, results, now, workers, history>>

\* One job submitted through the gateway, entries of any shape appended for
\* the job ids, and the workers with a broker, a status endpoint and a
\* strategy that answer.
RawNext ==
    \/ \E f \in ValidFilenames, b \in ValidContents :
          next_id = 0 /\ upload_pdf(f, b, PYPDF)
    \/ \E req \in inflight : add_to_stream(req, TRUE)
    \/ \E id \in 1..MaxUploads : \E fields \in RawEntries(id) : xadd_raw(fields)
    \/ \E c \in Consumers : HappyWorker(c)
    \/ \E c \in Consumers : status_failed(c, TRUE)

RawSpec == Init /\ [][RawNext]_vars

\* The loop leaves on a read that failed.
consume_messages_break(c, ok) ==
    /\ pc[c] = "read"
    /\ IF ok /\ xreadgroup(1) # {}
       THEN read_messages(c, TRUE)
       ELSE /\ pc' = [pc EXCEPT ![c] = IF ok THEN "sleep" ELSE "stopped"]
            /\ local' = [local EXCEPT ![c] = [message_id |-> 0, read_failed |-> ~ok]]
            /\ UNCHANGED <<gateway, broker, history>>
    /\ UNCHANGED running

\* consume_messages, pdf_consumer.py:26-36, with the wait of line 31 as a step
\* of its own: a read that fails (read_messages returns [],
\* redis_service.py:89-91) or finds nothing sends the loop to
\* asyncio.sleep(1); a delivered entry is handled as in read_messages.
\* `read_failed` is history: what the last read was.
consume_messages(c, ok) ==
    /\ pc[c] = "read"
    /\ IF ok /\ xreadgroup(1) # {}
       THEN read_messages(c, TRUE)
       ELSE /\ pc' = [pc EXCEPT ![c] = "sleep"]
            /\ local' = [local EXCEPT ![c] = [message_id |-> 0, read_failed |-> ~ok]]
            /\ UNCHANGED <<gateway, broker, history>>
    /\ UNCHANGED running

\* pdf_consumer.py:31-32: the sleep is over, `continue` takes the loop to the
\* next read.
asyncio_sleep(c) ==
    /\ pc[c] = "sleep"
    /\ pc' = [pc EXCEPT ![c] = while_running(c)]
    /\ local' = [local EXCEPT ![c] = NoMessage]
    /\ UNCHANGED <<gateway, broker, history>>
    /\ UNCHANGED running

\* _process_message for a delivered entry: the strategy returns or raises,
\* the other calls are answered.
Handle(c) ==
    \/ status_processing(c, TRUE)
    \/ \E ok \in BOOLEAN, err \in Errors : process_pdf(c, ok, err)
    \/ _store_results_in_redis(c, TRUE)
    \/ status_completed(c, TRUE)
    \/ status_failed(c, TRUE)
    \/ acknowledge_message(c, TRUE)

\* The polling loop while the processes live: valid submissions, a broker
\* that may fail any read, and consumers that read, wait and read again.
\* Every suspended call of a consumer eventually returns, and the broker does
\* not stay away for ever: a consumer that keeps reading eventually has a
\* read answered.
PollNext ==
    \/ \E f \in ValidFilenames, b \in ValidContents : upload_pdf(f, b, PYPDF)
    \/ \E req \in inflight : add_to_stream(req, TRUE)
    \/ \E c \in Consumers, ok \in BOOLEAN : consume_messages(c, ok)
    \/ \E c \in Consumers : asyncio_sleep(c)
    \/ \E c \in Consumers : Handle(c)

PollSpec ==
    /\ Init
    /\ [][PollNext]_vars
    /\ \A c \in Consumers :
          /\ WF_vars(asyncio_sleep(c))
          /\ WF_vars(Handle(c))
          /\ WF_vars(\E ok \in BOOLEAN : consume_messages(c, ok))
          /\ SF_vars(consume_messages(c, TRUE))

\* pdf_consumer.py:76: the awaited process_pdf never returns (the code sets
\* no timeout on it): the consumer stays suspended there for good.
process_pdf_hangs(c) ==
    /\ pc[c] = "process_pdf"
    /\ pc' = [pc EXCEPT ![c] = "hung"]
    /\ UNCHANGED <<gateway, broker, local, history>>
    /\ UNCHANGED running

\* _process_message and the read with a broker and a result store that
\* answer; a status update may fail, as it does while the process that
\* serves the API is blocked in its own strategy call.
HangWorker(c) ==
    \/ read_messages(c, TRUE)
    \/ \E ok \in BOOLEAN : status_processing(c, ok)
    \/ \E ok \in BOOLEAN, err \in Errors : process_pdf(c, ok, err)
    \/ _store_results_in_redis(c, TRUE)
    \/ \E ok \in BOOLEAN : status_completed(c, ok)
    \/ \E ok \in BOOLEAN : status_failed(c, ok)
    \/ acknowledge_message(c, TRUE)

\* Valid submissions handled by consumers whose strategy call may hang.  A
\* consumer that is not hung eventually goes on.
HangNext ==
    \/ \E f \in ValidFilenames, b \in ValidContents : upload_pdf(f, b, PYPDF)
    \/ \E req \in inflight : add_to_stream(req, TRUE)
    \/ \E c \in Consumers : HangWorker(c)
    \/ \E c \in Consumers : process_pdf_hangs(c)

HangSpec ==
    /\ Init
    /\ [][HangNext]_vars
    /\ \A c \in Consumers : WF_vars(HangWorker(c))

\* Request bodies of POST /update-status sent by clients other than the
\* worker: a field the entry has, fields the entry does not have yet, and the
\* empty object.
Bodies ==
    { [parser |-> MISTRAL],
      [note |-> "n", progress |-> 50],
      << >> }

\* Two valid submissions, the job that is updated and another one, handled
\* by the workers while clients post to /update-status for any id.
Pair == {1, 2}

MergeNext ==
    \/ \E f \in ValidFilenames, b \in ValidContents :
          next_id + 1 \in Pair /\ upload_pdf(f, b, PYPDF)
    \/ \E req \in inflight : add_to_stream(req, TRUE)
    \/ \E c \in Consumers : HappyWorker(c)
    \/ \E id \in 1..MaxUploads, body \in Bodies : update_status_request(id, body)

MergeSpec == Init /\ [][MergeNext]_vars

\* -------------------------------------------------------------- strategy
\* PDFProcessor.gemini_model (pdf_processor.py:18-36): None when
\* GEMINI_API_KEY is not set or the initialisation failed.
GeminiModels == {None, [model |-> "gemini-2.0-flash-exp"]}
\* What generate_content does: it answers, or it raises.
GeminiAnswers == {"answer", "API Error"}

\* The analysis of the except branch, pdf_processor.py:198-207; the
\* confidence score is held in tenths.
FallbackAnalysis ==
    [summary |-> "Summarization failed, text extracted successfully",
     confidence_score |-> 3]

\* PDFProcessor.summarize_with_gemini, pdf_processor.py:154-207: None without
\* a model; with one, the parsed analysis, or the fallback analysis when
\* anything raised.  It never raises.
summarize_with_gemini(gemini_model, answer) ==
    IF gemini_model = None THEN None
    ELSE IF answer = "answer" THEN [summary |-> "summary", confidence_score |-> 8]
    ELSE FallbackAnalysis

\* ProcessingResult(...), pdf_models.py:42-47: `analysis: GeminiAnalysis` is a
\* required field that is not Optional, so the constructor raises a
\* validation error for analysis=None.
ProcessingResult_raises(analysis) == analysis = None

\* PDFProcessor.process_pdf, pdf_processor.py:209-237, as the worker awaits it
\* (pdf_consumer.py:76): the extraction returns or raises, the text is
\* summarized, the ProcessingResult is built; whatever raises is logged and
\* raised again to the worker.
process_pdf_strategy(c, extracted, gemini_model, answer) ==
    /\ pc[c] = "process_pdf"
    /\ LET analysis == summarize_with_gemini(gemini_model, answer) IN
       IF ~extracted
       THEN /\ local' = [local EXCEPT ![c] =
                            [path |-> "failed", e |-> "EOF marker not found"] @@ local[c]]
            /\ pc' = [pc EXCEPT ![c] = "status_failed"]
       ELSE IF ProcessingResult_raises(analysis)
       THEN /\ local' = [local EXCEPT ![c] =
                            [path |-> "failed",
                             e |-> "1 validation error for ProcessingResult"] @@ local[c]]
            /\ pc' = [pc EXCEPT ![c] = "status_failed"]
       ELSE /\ local' = [local EXCEPT ![c] = local[c] @@
                            [result |-> [ProcessingResult(local[c]) EXCEPT
                                            !.analysis = analysis]]]
            /\ pc' = [pc EXCEPT ![c] = "store_results"]
    /\ UNCHANGED <<gateway, broker, history>>
    /\ UNCHANGED running

\* The pipeline with the strategy looked into: valid submissions, a broker
\* and a status endpoint that answer, and a strategy whose extraction and
\* whose summarization may fail, with or without a Gemini model.
StrategyNext ==
    \/ \E f \in ValidFilenames, b \in ValidContents : upload_pdf(f, b, PYPDF)
    \/ \E req \in inflight : add_to_stream(req, TRUE)
    \/ \E c \in Consumers : read_messages(c, TRUE)
    \/ \E c \in Consumers : status_processing(c, TRUE)
    \/ \E c \in Consumers, extracted \in BOOLEAN,
          gemini_model \in GeminiModels, answer \in GeminiAnswers :
          process_pdf_strategy(c, extracted, gemini_model, answer)
    \/ \E c \in Consumers : _store_results_in_redis(c, TRUE)
    \/ \E c \in Consumers : status_completed(c, TRUE)
    \/ \E c \in Consumers : status_failed(c, TRUE)
    \/ \E c \in Consumers : acknowledge_message(c, TRUE)

StrategySpec == Init /\ [][StrategyNext]_vars

\* ------------------------------------------------------- terminal status
\* One consumer's handling when the broker, the result store and the status
\* endpoint answer every call and the strategy returns or raises
\* (pdf_consumer.py:42-131).
AnsweredWorker(c) ==
    \/ read_messages(c, TRUE)
    \/ status_processing(c, TRUE)
    \/ \E ok \in BOOLEAN, err \in Errors : process_pdf(c, ok, err)
    \/ _store_results_in_redis(c, TRUE)
    \/ status_completed(c, TRUE)
    \/ status_failed(c, TRUE)
    \/ acknowledge_message(c, TRUE)

\* Every file the gateway accepts (main.py:66 checks the name only), empty
\* ones included; no call is left unanswered and no process dies.
TerminalNext ==
    \/ \E f \in ValidFilenames, b \in Contents : upload_pdf(f, b, PYPDF)
    \/ \E req \in inflight : add_to_stream(req, TRUE)
    \/ \E c \in Consumers : AnsweredWorker(c)
    \/ \E id \in 1..MaxUploads : get_processing_status(id)

\* Suspended uploads and the consumer loops eventually go on
\* (pdf_consumer.py:26).
TerminalSpec ==
    /\ Init
    /\ [][TerminalNext]_vars
    /\ WF_vars(\E req \in inflight : add_to_stream(req, TRUE))
    /\ \A c \in Consumers : WF_vars(AnsweredWorker(c))

\* ------------------------------------------------------ one process lifetime
\* The processes stay up from their start: submissions whose append may
\* fail and consumers whose every call may fail, in any interleaving
\* (main.py:59-96, pdf_consumer.py:42-131).
LifetimeNext ==
    \/ \E f \in ValidFilenames, b \in Contents : upload_pdf(f, b, PYPDF)
    \/ \E req \in inflight, ok \in BOOLEAN : add_to_stream(req, ok)
    \/ \E c \in Consumers : Worker(c)

LifetimeSpec == Init /\ [][LifetimeNext]_vars

\* ------------------------------------------------------------------ stop
\* PDFConsumer.stop, pdf_consumer.py:151-154: clears the flag and returns; it
\* may be called at any time on a consumer, whether its loop runs or not.
stop(c) ==
    /\ pc[c] # "down"
    /\ running' = [running EXCEPT ![c] = FALSE]
    /\ UNCHANGED <<gateway, broker, pc, local, history>>

\* consume_messages is called again on a consumer whose loop had returned
\* (pdf_consumer.py:21-28): it sets the flag, enters the loop and reads.
consume_messages_start(c) ==
    /\ pc[c] = "returned"
    /\ running' = [running EXCEPT ![c] = TRUE]
    /\ pc' = [pc EXCEPT ![c] = "read"]
    /\ UNCHANGED <<gateway, broker, local, history>>

\* Consumers that are stopped and started while valid submissions go through
\* the pipeline; the broker may fail any read and the strategy may raise.
StopNext ==
    \/ \E f \in ValidFilenames, b \in ValidContents : upload_pdf(f, b, PYPDF)
    \/ \E req \in inflight : add_to_stream(req, TRUE)
    \/ \E c \in Consumers, ok \in BOOLEAN : consume_messages(c, ok)
    \/ \E c \in Consumers : asyncio_sleep(c)
    \/ \E c \in Consumers : Handle(c)
    \/ \E c \in Consumers : stop(c)
    \/ \E c \in Consumers : consume_messages_start(c)

\* Every suspended call of a consumer eventually returns: the read blocks for
\* at most a second (redis_service.py:83), the sleeps end.
StopSpec ==
    /\ Init
    /\ [][StopNext]_vars
    /\ \A c \in Consumers :
          /\ WF_vars(asyncio_sleep(c))
          /\ WF_vars(Handle(c))
          /\ WF_vars(\E ok \in BOOLEAN : consume_messages(c, ok))

\* ================================================================= claims
Terminal == {COMPLETED, FAILED}
JobIds == DOMAIN processing_status
EntryIds == 1..Len(stream)
DeliveriesIn(log, id) == Cardinality({ i \in 1..Len(log) : log[i] = id })
Deliveries(id) == DeliveriesIn(delivery_log, id)
\* The consumers that hold entry id: delivered, acknowledgment not yet attempted.
Holders(id) == { c \in Consumers : pc[c] # "read" /\ local[c].message_id = id }
\* Job ids that have an entry in the stream.
Enqueued == { stream[i].processing_id : i \in EntryIds }
Suspended == { req.processing_id : req \in inflight }
ReturnedId == IF response.status_code = 200 THEN response.processing_id ELSE 0

\* ------------------------------------------------------------------- C1
\* C1: whenever upload_pdf returns a job id (the append succeeded), that id is
\* at that moment a key of the Status Register with status `pending`.
C1_ReturnedIdIsPending ==
    [][ (ReturnedId' # ReturnedId /\ ReturnedId' # 0)
          => /\ ReturnedId' \in DOMAIN processing_status'
             /\ processing_status'[ReturnedId'].status = PENDING ]_vars

\* A job id has been returned and its register entry is `pending`.
C1_Witness ==
    /\ ReturnedId # 0
    /\ ReturnedId \in JobIds
    /\ processing_status[ReturnedId].status = PENDING
    /\ ReturnedId \in Enqueued

\* ------------------------------------------------------------------- C2
\* C2: when _process_message returns, the entry it was given has been
\* acknowledged (it left the PEL through one XACK) and no entry is delivered
\* a second time, whatever the outcome of the calls.
C2_AcknowledgedOnReturn ==
    [][ \A c \in Consumers :
          (pc[c] = "ack" /\ pc'[c] = "read")
            => /\ local[c].message_id \notin pel'
               /\ local[c].message_id \in acked'
               /\ \A id \in 1..Len(stream') : DeliveriesIn(delivery_log', id) <= 1 ]_vars

\* ------------------------------------------------------------------- C3
\* C3: a status that is `completed` or `failed` never changes afterwards, for
\* as long as the job is in the register.
C3_TerminalNeverChanges ==
    [][ \A id \in JobIds \cap DOMAIN processing_status' :
          processing_status[id].status \in Terminal
            => processing_status'[id].status = processing_status[id].status ]_vars

\* ------------------------------------------------------------------- C4
Rank(status) == CASE status = PENDING -> 0 [] status = PROCESSING -> 1 [] OTHER -> 2

\* A consumer that handles job id has sent the `processing` update for it.
ProcessingWasSent(id) ==
    \E c \in Consumers :
       /\ "processing_id" \in DOMAIN local[c]
       /\ local[c].processing_id = id
       /\ Len(local[c].sent) >= 1
       /\ local[c].sent[1].status = PROCESSING

\* C4 as stated: the stored status goes pending, processing, one terminal
\* value; in particular it never leaves `pending` for a terminal value.
C4_NeverSkipsProcessing ==
    [][ \A id \in JobIds \cap DOMAIN processing_status' :
          LET old == processing_status[id].status
              new == processing_status'[id].status
          IN /\ old = PENDING => new \in {PENDING, PROCESSING}
             /\ old = PROCESSING => new \in {PROCESSING} \cup Terminal
             /\ old \in Terminal => new = old ]_vars

\* C4 amended: the stored status never moves backwards and never leaves a
\* terminal value; it leaves `pending` for a terminal value only when the
\* worker's `processing` update for the job was sent and did not arrive.
C4_StatusOnlyForward ==
    [][ \A id \in JobIds \cap DOMAIN processing_status' :
          LET old == processing_status[id].status
              new == processing_status'[id].status
          IN /\ Rank(new) >= Rank(old)
             /\ old \in Terminal => new = old
             /\ (old = PENDING /\ new \in Terminal) => ProcessingWasSent(id) ]_vars

\* A worker has taken a job to `completed` and is about to acknowledge.
C4_Witness ==
    \E c \in Consumers :
       /\ pc[c] = "ack"
       /\ local[c].path = "ok"
       /\ local[c].processing_id \in JobIds
       /\ processing_status[local[c].processing_id].status = COMPLETED
       /\ Len(local[c].sent) = 2

\* ------------------------------------------------------------------- C5
\* C5: with several consumer instances under the one group, no entry is held
\* un-acknowledged by two instances, and no entry is handed to two instances.
C5_OneInstancePerEntry ==
    \A id \in EntryIds :
       /\ Cardinality(Holders(id)) <= 1
       /\ Deliveries(id) <= 1

\* Both instances hold an entry at the same time, each its own.
C5_Witness ==
    \E id1, id2 \in pel :
       /\ id1 # id2
       /\ Holders(id1) = {"w1"}
       /\ Holders(id2) = {"w2"}

\* ------------------------------------------------------------------- C6
\* The states of entry id for the group: never delivered, pending,
\* acknowledged.
NeverDelivered(id, log, ld) == id > ld /\ \A i \in 1..Len(log) : log[i] # id
\* The number of the three states entry id is in.
EntryStates(id, log, ld, p, a) ==
    (IF NeverDelivered(id, log, ld) THEN 1 ELSE 0)
       + (IF id \in p THEN 1 ELSE 0) + (IF id \in a THEN 1 ELSE 0)

EntryRank(id, p, a) == IF id \in a THEN 2 ELSE IF id \in p THEN 1 ELSE 0

\* C6: every entry is in exactly one of the three states, and a step moves it
\* at most from never delivered to pending or from pending to acknowledged;
\* a crash and restart is a step like the others.
C6_EntryStateMachine ==
    [][ \A id \in 1..Len(stream') :
          /\ EntryStates(id, delivery_log', last_delivered', pel', acked') = 1
          /\ id <= Len(stream) =>
               /\ EntryRank(id, pel', acked') >= EntryRank(id, pel, acked)
               /\ EntryRank(id, pel', acked') <= EntryRank(id, pel, acked) + 1 ]_vars

\* After a crash: one entry acknowledged, another still pending with no
\* consumer holding it.
C6_Witness ==
    /\ pc[ApiHost] = "down"
    /\ \E id1 \in acked, id2 \in pel : Holders(id2) = {}

\* ------------------------------------------------------------------- C7
Running == \A c \in Consumers : pc[c] # "down"

\* C7: an entry whose consumer crashed after the result write and before the
\* acknowledgment is delivered a second time once the processes have been
\* restarted and stay up.
C7_RedeliveredAfterCrash ==
    \A id \in 1..MaxUploads :
       <>[]Running => ((id \in crashed_after_store) ~> (Deliveries(id) >= 2))

\* ------------------------------------------------------------------- C8
Contains(message, text) == \E i \in 1..Len(message) : message[i] = text

\* C8: when process_pdf raised, _process_message returns having reported
\* `failed` with the exception text in the message, and the entry is out of
\* the PEL.
C8_FailureReportedAndAcknowledged ==
    [][ \A c \in Consumers :
          ( /\ pc[c] = "ack" /\ pc'[c] = "read"
            /\ local[c].path = "failed"
            /\ "pdf_content" \in DOMAIN local[c] )
            => LET report == local[c].sent[Len(local[c].sent)] IN
               /\ report.status = FAILED
               /\ Contains(report.message, local[c].e)
               /\ local[c].message_id \notin pel' ]_vars

\* ------------------------------------------------------------------- C9
\* The job's append failed: a register entry with no suspended handler and
\* no stream entry.
Orphan(id) == id \in JobIds /\ id \notin Suspended /\ id \notin Enqueued

\* The step is the failure of req's append.
AppendFails(req) ==
    /\ req \in inflight
    /\ req \notin inflight'
    /\ stream' = stream
    /\ pc'[ApiHost] # "down"
   

\* The caller gets the failure and no job id; the entry stays `pending`.
FailurePropagated(req) ==
    /\ response'.status_code = 500
    /\ "processing_id" \notin DOMAIN response'
    /\ req.processing_id \in DOMAIN processing_status'
    /\ processing_status'[req.processing_id].status = PENDING
    /\ req.processing_id \notin Enqueued'

Untouched(id) ==
    /\ id \in DOMAIN processing_status'
    /\ processing_status'[id] = processing_status[id]
    /\ id \notin Enqueued'

\* The process that holds the register restarts.
ApiRestart == pc[ApiHost] # "down" /\ pc'[ApiHost] = "down"

\* C9 as stated: a failed append is propagated, leaves the `pending` entry
\* without a stream entry, and no later step changes or removes that entry.
C9_OrphanStaysForever ==
    [][ /\ \A req \in inflight : AppendFails(req) => FailurePropagated(req)
        /\ \A id \in JobIds : Orphan(id) => Untouched(id) ]_vars

\* C9 amended: ... and no later step changes or removes that entry, except
\* the restart of the process, which empties the register.
C9_OrphanStaysUntilRestart ==
    [][ /\ \A req \in inflight : AppendFails(req) => FailurePropagated(req)
        /\ \A id \in JobIds : (Orphan(id) /\ ~ApiRestart) => Untouched(id) ]_vars

\* The append of one job failed, its entry is still `pending`, and meanwhile
\* another job went through the worker.
C9_Witness ==
    \E id \in JobIds, other \in JobIds :
       /\ Orphan(id)
       /\ processing_status[id].status = PENDING
       /\ processing_status[other].status \in Terminal

\* ------------------------------------------------------------------ C10
\* C10: no submission with empty content gets a register entry or a stream
\* entry: every accepted request, suspended or enqueued, has content.
C10_EmptyContentRejected ==
    /\ \A req \in inflight : req.content # << >>
    /\ \A id \in EntryIds : json_loads(stream[id].data).content # << >>

\* ------------------------------------------------------------------ C11
\* The last four characters of the filename are ".pdf".
HasPdfExtension(f) ==
    /\ Len(f) >= 4
    /\ <<f[Len(f) - 3], f[Len(f) - 2], f[Len(f) - 1], f[Len(f)]>> = DotPdf

C12_UnknownParserAccepted ==
    [][ \A f \in Filenames, b \in Contents, p \in ParserInputs \ ParserType :
          (upload_pdf(f, b, p) /\ HasPdfExtension(f))
            => /\ next_id' = next_id + 1
               /\ next_id' \in DOMAIN processing_status'
               /\ \E req \in inflight' : req.processing_id = next_id' ]_vars

\* ------------------------------------------------------------------ C13
\* The stream entry of job id, once appended.
EntryOf(id) == CHOOSE i \in EntryIds : stream[i].processing_id = id
Requested(id) == json_loads(stream[EntryOf(id)].data)
\* A valid submission that reached the stream: it has content.
ValidEnqueued(id) == id \in Enqueued /\ Requested(id).content # << >>

\* Job id is `completed` and GET /results/{id} answers with the stored
\* record, whose parser_used is the parser the client asked for.
Served(id) ==
    /\ id \in JobIds
    /\ processing_status[id].status = COMPLETED
    /\ id \in DOMAIN written
    /\ LET answer == get_processing_results_response(results, id, now, TRUE) IN
       /\ answer.status_code = 200
       /\ answer.markdown = written[id].data.markdown
       /\ answer.parser_used = Requested(id).parser

\* C13: when nothing fails the status of a job changes only from pending to
\* processing and from processing to completed; every valid submission that
\* was enqueued gets completed with its record served by /results, and stays
\* so.
C13_HappyPath ==
    /\ [][ \A id \in JobIds :
             LET old == processing_status[id].status
                 new == processing_status'[id].status
             IN new # old => <<old, new>> \in {<<PENDING, PROCESSING>>,
                                               <<PROCESSING, COMPLETED>>} ]_vars
    /\ \A id \in 1..MaxUploads : ValidEnqueued(id) ~> Served(id)
    /\ [][ \A id \in 1..MaxUploads : Served(id) => Served(id)' ]_vars

\* A job asked for with a parser other than the baseline is completed and a
\* client has read its record.
C13_Witness ==
    \E id \in JobIds :
       /\ Served(id)
       /\ Requested(id).parser = GEMINI_FLASH
       /\ response = get_processing_results_response(results, id, now, TRUE)

\* ------------------------------------------------------------------ C14
Age(id) == now - written[id].at

\* C14: a record written with the time to live of 86400 s is what get_result
\* returns at every time less than that after the write, and get_result
\* reports nothing at every time more than that after the write.
C14_TimeToLive ==
    \A id \in DOMAIN written :
       /\ Age(id) < expire_seconds
             => get_result(results, id, now, TRUE) = written[id].data
       /\ Age(id) > expire_seconds
             => get_result(results, id, now, TRUE) = None

\* One record is one second short of its time to live and was just read,
\* another is past it; neither key was deleted.
C14_Witness ==
    \E id1, id2 \in DOMAIN written :
       /\ Age(id1) = expire_seconds - 1
       /\ Age(id2) > expire_seconds
       /\ id2 \in DOMAIN results
       /\ response = get_processing_results_response(results, id1, now, TRUE)
       /\ response.status_code = 200

\* ------------------------------------------------------------------ C15
\* The store of the run in which key id was never written.
NeverWritten(r, id) == [k \in DOMAIN r \ {id} |-> r[k]]

\* C15: for a key that was written and has expired, get_result and
\* GET /results answer exactly as in the run that differs only in that the
\* key was never written: nothing, 404.
C15_ExpiredLikeNeverWritten ==
    \A id \in DOMAIN written, ok \in BOOLEAN :
       Age(id) > expire_seconds
          => /\ get_result(results, id, now, ok)
                   = get_result(NeverWritten(results, id), id, now, ok)
             /\ get_processing_results_response(results, id, now, ok)
                   = get_processing_results_response(NeverWritten(results, id), id, now, ok)
             /\ get_processing_results_response(results, id, now, ok).status_code = 404

\* A client has read an expired key and got 404 while the other key was
\* never written.
C15_Witness ==
    \E id \in DOMAIN written :
       /\ Age(id) > expire_seconds
       /\ Keys \ DOMAIN written # {}
       /\ response.status_code = 404

\* ------------------------------------------------------------------ C16
\* C16: after a successful write the key reads as the record just written,
\* whatever was there; and in every state, writing d1 and then d2 leaves d2
\* readable, and writing the same record twice leaves the store as writing
\* it once.
C16_LastWriteWins ==
    /\ [][ \A id \in Keys, d \in Records :
             store(id, d, TRUE) => get_result(results', id, now', TRUE) = d ]_vars
    /\ [](\A id \in Keys, d1 \in Records, d2 \in Records :
             LET once == setex(results, id, expire_seconds, json_dumps(d1), now)
                 twice == setex(once, id, expire_seconds, json_dumps(d2), now)
             IN /\ get_result(twice, id, now, TRUE) = d2
                /\ d1 = d2 => twice = once)

\* A key was written a second time, later than the first, and a client has
\* read the record of the second write.
C16_Witness ==
    \E id \in DOMAIN written :
       /\ written[id].writes = 2
       /\ Age(id) = 0
       /\ now > 0
       /\ get_result(results, id, now, TRUE) = written[id].data
       /\ response.status_code = 200
       /\ response.processing_id = id
       /\ response.markdown = written[id].data.markdown
       /\ response.parser_used = written[id].data.parser_used

\* ------------------------------------------------------------------ C17
\* The step appends the entry of the suspended request req.
Appends(req) ==
    /\ req \in inflight
    /\ req \notin inflight'
    /\ Len(stream') = Len(stream) + 1

\* C17: for every non-empty content, decoding the entry the gateway appends
\* gives back the submitted bytes; entries never change; and the bytes a
\* worker hands to the strategy are the decoding of the entry it was given.
C17_BytesRoundTrip ==
    [][ /\ \A req \in inflight :
             (Appends(req) /\ req.content # << >>)
               => LET l == decode(Len(stream'), stream'[Len(stream')]) IN
                  /\ l.path = "ok"
                  /\ l.pdf_content = req.content
        /\ \A id \in EntryIds : stream'[id] = stream[id]
        /\ \A c \in Consumers :
             (pc[c] = "status_processing" /\ pc'[c] = "process_pdf")
               => /\ local'[c].pdf_content = local[c].pdf_content
                  /\ local[c].pdf_content
                       = decode(local[c].message_id,
                                stream[local[c].message_id]).pdf_content ]_vars

\* The strategy is running on a content with a null byte and a byte that is
\* not UTF-8.
C17_Witness ==
    \E c \in Consumers :
       /\ pc[c] = "process_pdf"
       /\ local[c].pdf_content = <<0, 255>>

\* ------------------------------------------------------------------ C18
NotFound == response'.status_code = 404
NothingCreated == processing_status' = processing_status /\ results' = results

\* C18: GET /status and POST /update-status for an id that is not in the
\* register, and GET /results for an id with no stored result, answer 404
\* and leave the register and the result keys as they were.
C18_UnknownIdNotFound ==
    [][ \A id \in QueryIds :
          /\ (id \notin JobIds /\ get_processing_status(id))
                => NotFound /\ NothingCreated
          /\ (id \notin JobIds /\ update_status_request(id, [status |-> FAILED]))
                => NotFound /\ NothingCreated
          /\ \A ok \in BOOLEAN :
                (redis_get(results, id, now) = None /\ get_processing_results(id, ok))
                   => NotFound /\ NothingCreated ]_vars

\* A client was told that an id is not in the register while a job is in the
\* register and its result is stored.
C18_Witness ==
    /\ response = [status_code |-> 404, detail |-> "Processing ID not found"]
    /\ JobIds # {}
    /\ DOMAIN results # {}

\* ------------------------------------------------------------------ C19
\* Consumer c completes a status update for job id, whose entry it holds.
WorkerUpdates(c, id) ==
    /\ pc[c] \in {"status_processing", "status_completed", "status_failed"}
    /\ pc'[c] # pc[c]
    /\ local[c].processing_id = id
    /\ local[c].message_id \in pel

\* C19: every change of a register entry from `pending` to another status
\* happens in a step in which a worker completes a status update for an
\* entry it was delivered.
C19_OnlyWorkerLeavesPending ==
    [][ \A id \in JobIds \cap DOMAIN processing_status' :
          ( /\ processing_status[id].status = PENDING
            /\ processing_status'[id].status # PENDING )
            => \E c \in Consumers : WorkerUpdates(c, id) ]_vars

\* ------------------------------------------------------------------ C20
\* C20: no entry is delivered twice; a consumer gets to the `processing`
\* update only by a delivery and to the strategy only from that update, so
\* the strategy runs at most once per entry; and once a job is `failed` no
\* consumer is at or before the strategy with it.
C20_FailedNeverRetried ==
    [][ /\ \A id \in 1..Len(stream') : DeliveriesIn(delivery_log', id) <= 1
        /\ \A c \in Consumers :
             /\ (pc'[c] = "status_processing" /\ pc[c] # "status_processing")
                   => /\ pc[c] = "read"
                      /\ delivery_log' = Append(delivery_log, local'[c].message_id)
             /\ (pc'[c] = "process_pdf" /\ pc[c] # "process_pdf")
                   => /\ pc[c] = "status_processing"
                      /\ local'[c].message_id = local[c].message_id
        /\ \A id \in DOMAIN processing_status' :
             processing_status'[id].status = FAILED
               => \A c \in Consumers :
                     ("processing_id" \in DOMAIN local'[c] /\ local'[c].processing_id = id)
                        => pc'[c] = "ack" ]_vars

\* The strategy failed for one job; its entry is acknowledged, the workers
\* went on to complete another job and are reading again with nothing left
\* to deliver.
C20_Witness ==
    \E id \in JobIds, other \in JobIds :
       /\ processing_status[id].status = FAILED
       /\ processing_status[other].status = COMPLETED
       /\ id \in Enqueued
       /\ EntryOf(id) \in acked
       /\ Requested(id).content # << >>
       /\ \A c \in Consumers : pc[c] = "read"
       /\ last_delivered = Len(stream)

\* ------------------------------------------------------------------- C21
\* The consumers suspended in the result write of job id, which they reach
\* only when process_pdf has returned a result (pdf_consumer.py:76-86).
Storing(id) ==
    { c \in Consumers : /\ pc[c] = "store_results"
                        /\ local[c].processing_id = id
                        /\ "result" \in DOMAIN local[c] }

\* C21: for each job id the ResultRecord is written at most once over the
\* whole execution, by a consumer whose strategy call for that job returned a
\* result, and the stored record is never overwritten afterwards.
C21_WrittenOnce ==
    [][ \A id \in 1..MaxUploads :
          /\ Writes(id)' # Writes(id)
                => /\ Writes(id) = 0
                   /\ Writes(id)' = 1
                   /\ Storing(id) # {}
                   /\ written'[id].data = ResultRecord(ProcessingResult(
                          decode(id, stream[EntryOf(id)])))
          /\ id \in DOMAIN results
                => /\ id \in DOMAIN results'
                   /\ results'[id] = results[id] ]_vars

\* The record of a job was written, its consumer died before the
\* acknowledgment, every process is up again and a second job is done: the
\* first record was written once.
C21_Witness ==
    \E id \in 1..MaxUploads :
        /\ Writes(id) = 1
        /\ id \in DOMAIN results
        /\ EntryOf(id) \in crashed_after_store
        /\ Running
        /\ \E other \in 1..MaxUploads : other # id /\ Writes(other) = 1

\* ------------------------------------------------------------------- C22
\* The awaits of consume_messages and _process_message: a consumer that is
\* suspended in one of them is inside its loop.
LoopPositions ==
    {"read", "status_processing", "process_pdf", "store_results",
     "status_completed", "status_failed", "ack"}

\* C22: no error path stops the process or the worker loop: whatever call
\* fails, at any point of the service's life, no process exits because of it,
\* and a consumer that is in its loop is still in it after the step, unless
\* the process was killed from outside.
C22_NoErrorPathStops ==
    [][ \A p \in Consumers :
          /\ pc'[p] # "exited"
          /\ (pc[p] \in LoopPositions /\ ~crash(p)) => pc'[p] \in LoopPositions ]_vars

\* ------------------------------------------------------------------- C23
\* Job ids that were generated and are not in the register: a restart of the
\* process that holds the register removed them (nothing else removes a key).
Lost(id) == id \in 1..next_id /\ id \notin DOMAIN processing_status

\* Consumer c completes a status update for job id in this step.
StatusUpdate(c, id) ==
    /\ pc[c] \in {"status_processing", "status_completed", "status_failed"}
    /\ local[c].processing_id = id
    /\ pc'[c] \notin {pc[c], "down"}

\* The position after a status update that succeeded.
AfterUpdate(position) ==
    CASE position = "status_processing" -> "process_pdf"
      [] position = "status_completed" -> "ack"
      [] position = "status_failed" -> "ack"

\* A restart of the process that holds the register empties it; an id lost
\* that way stays unknown, GET /status answers 404 for it, and a status update
\* the worker sends for it changes nothing in the register and in the
\* worker's course.
C23_RegisterLost ==
    [][ /\ (pc[ApiHost] # "down" /\ pc'[ApiHost] = "down") => processing_status' = << >>
        /\ \A id \in 1..MaxUploads :
              Lost(id)
                => /\ Lost(id)'
                   /\ get_processing_status(id) => response'.status_code = 404
                   /\ \A c \in Consumers :
                         StatusUpdate(c, id)
                           => /\ update_processing_status(processing_status, id,
                                     [status |-> COMPLETED]) = processing_status
                              /\ processing_status' = processing_status
                              /\ pc'[c] = AfterUpdate(pc[c]) ]_vars

\* Once the processes stay up, every entry of the stream gets delivered, the
\* ones appended before a restart included, whether or not their jobs are
\* still in the register.
C23_StillDelivered ==
    <>[]Running => []<>(last_delivered = Len(stream))

\* C23: after a restart of the process the Status Register is empty and GET
\* /status answers 404 for every id submitted before it, while the entries
\* appended before the restart and not yet delivered are still delivered to
\* the worker, whose status updates for them are rejected and swallowed.
C23_RestartLosesRegister == C23_RegisterLost /\ C23_StillDelivered

\* The register was emptied by a restart; the entry of a lost job, appended
\* before, was delivered after it to the restarted process, which has sent its
\* two status updates to no effect and stored the result; a job submitted
\* after the restart is in the register, and the last GET /status got 404.
C23_Witness ==
    \E id \in 1..MaxUploads :
        /\ Lost(id)
        /\ pc[ApiHost] = "ack"
        /\ local[ApiHost].processing_id = id
        /\ Len(local[ApiHost].sent) = 2
        /\ id \in DOMAIN results
        /\ response.status_code = 404
        /\ \E other \in DOMAIN processing_status : other > id

\* ------------------------------------------------------------------- C24
\* The entry lacks the job id or the data field, its data is not JSON, or the
\* payload lacks the filename or the content or has a content that is not hex.
StructurallyInvalid(fields) ==
    \/ "processing_id" \notin DOMAIN fields
    \/ "data" \notin DOMAIN fields
    \/ json_loads_raises(fields.data)
    \/ Falsy(json_loads(fields.data), "filename")
    \/ Falsy(json_loads(fields.data), "content")
    \/ fromhex_raises(json_loads(fields.data).content)

\* C24: a delivered entry that is structurally invalid is acknowledged and
\* dropped: on delivery the consumer goes straight to the acknowledgment, which
\* removes the entry from the PEL, and no step it takes for the entry invokes
\* the strategy or changes the Status Register.
C24_InvalidEntryDropped ==
    [][ \A c \in Consumers :
          /\ (/\ pc[c] = "read"
              /\ pc'[c] # "read"
              /\ StructurallyInvalid(stream[local'[c].message_id]))
                => pc'[c] = "ack"
          /\ (/\ pc[c] \notin {"read", "down"}
              /\ pc'[c] # pc[c]
              /\ StructurallyInvalid(stream[local[c].message_id]))
                => /\ pc'[c] \in {"ack", "read"}
                   /\ processing_status' = processing_status
                   /\ pc[c] = "ack" => local[c].message_id \notin pel' ]_vars

\* ------------------------------------------------------------------- C25
\* C25: a job whose status is `completed` has a ResultRecord that was stored;
\* and a consumer whose result write failed does not report `completed`: it
\* goes on to the `failed` update.
C25_CompletedImpliesStored ==
    [][ /\ \A id \in DOMAIN processing_status' :
              processing_status'[id].status = COMPLETED => Writes(id)' >= 1
        /\ \A c \in Consumers :
              (/\ pc[c] = "store_results"
               /\ pc'[c] \notin {"store_results", "down"}
               /\ written' = written)
                 => pc'[c] = "status_failed" ]_vars

\* ------------------------------------------------------------------- C26
\* Consumer c completes the call it is suspended in (it is not killed).
Proceeds(c) == pc'[c] \notin {pc[c], "down"}

\* The `completed` update of a result, with the full result embedded.
CompletedUpdate(result) ==
    [status |-> COMPLETED, message |-> CompletedMessage,
     parser |-> result.parser_used, result |-> result]

Last(s) == s[Len(s)]

\* C26: when the strategy call has succeeded the worker issues, in this order
\* and each once, the ResultRecord write with a time to live of 86400 s, the
\* `completed` update that carries the full result, and the acknowledgment;
\* no entry with a terminal status to report is acknowledged before the
\* attempt to report it.
C26_StoreReportAcknowledge ==
    [][ \A c \in Consumers :
          /\ (pc[c] = "process_pdf" /\ Proceeds(c) /\ "result" \in DOMAIN local'[c])
                => /\ pc'[c] = "store_results"
                   /\ written' = written
                   /\ local'[c].sent = local[c].sent
          /\ (pc[c] = "store_results" /\ Proceeds(c))
                => /\ pc'[c] = "status_completed"
                   /\ local'[c] = local[c]
                   /\ pel' = pel
                   /\ LET id == local[c].processing_id IN
                      written' # written
                        => /\ Writes(id)' = Writes(id) + 1
                           /\ results'[id].expire_at = now + 86400
                           /\ json_loads(results'[id].value) = ResultRecord(local[c].result)
          /\ (pc[c] = "status_completed" /\ Proceeds(c))
                => /\ pc'[c] = "ack"
                   /\ local'[c].sent =
                         Append(local[c].sent, CompletedUpdate(local[c].result))
                   /\ Len(local'[c].sent) = 2
                   /\ written' = written
                   /\ pel' = pel
          /\ (pc[c] = "ack" /\ Proceeds(c) /\ local[c].path \in {"ok", "failed"})
                => /\ pc'[c] = "read"
                   /\ local[c].sent # << >>
                   /\ Last(local[c].sent).status \in Terminal
                   /\ local[c].path = "ok"
                         => Last(local[c].sent) = CompletedUpdate(local[c].result)
                   /\ written' = written
                   /\ processing_status' = processing_status ]_vars

\* A job went through the three steps: its record is stored with the 24 h
\* time to live, the register holds `completed` with the result, and its
\* entry was acknowledged.
C26_Witness ==
    \E id \in 1..MaxUploads :
        /\ id \in Enqueued
        /\ EntryOf(id) \in acked
        /\ Writes(id) = 1
        /\ id \in DOMAIN results
        /\ results[id].expire_at = written[id].at + 86400
        /\ id \in DOMAIN processing_status
        /\ processing_status[id].status = COMPLETED
        /\ "result" \in DOMAIN processing_status[id]

\* ------------------------------------------------------------------- C27
\* The status_data consumer c is sending.
Sending(c) ==
    CASE pc[c] = "status_processing" -> [status |-> PROCESSING, message |-> ProcessingMessage]
      [] pc[c] = "status_completed" -> CompletedUpdate(local[c].result)
      [] pc[c] = "status_failed" -> [status |-> FAILED, message |-> FailedMessage(local[c].e)]

\* C27: a status update that fails or is refused is swallowed.  Whether or not
\* the update took effect in the register, the worker goes on to the same
\* next call (the strategy after `processing`, the acknowledgment after a
\* terminal update) with the same locals, and nothing changes in the broker
\* and the result store; the calls that follow do not look at the register.
C27_StatusFailureSwallowed ==
    [][ \A c \in Consumers :
          (pc[c] \in {"status_processing", "status_completed", "status_failed"}
                /\ Proceeds(c))
            => /\ pc'[c] = AfterUpdate(pc[c])
               /\ local'[c] = [sent |-> Append(local[c].sent, Sending(c))] @@ local[c]
               /\ UNCHANGED <<broker, history>>
               /\ processing_status' \in
                     {processing_status,
                      update_processing_status(processing_status,
                                               local[c].processing_id, Sending(c))} ]_vars

\* Both status updates of a job had no effect (its register entry is still
\* `pending`), yet its result is stored, its entry acknowledged and a later
\* entry has been read.
C27_Witness ==
    \E id \in DOMAIN processing_status :
        /\ processing_status[id].status = PENDING
        /\ id \in Enqueued
        /\ Writes(id) = 1
        /\ EntryOf(id) \in acked
        /\ last_delivered > EntryOf(id)

\* ------------------------------------------------------------------- C28
\* C28: while the process lives the worker loop never exits: after an empty
\* read or a failed read it waits and reads again, and after an exception in
\* the handling of an entry it acknowledges and reads again; so an entry that
\* waits in the stream is delivered once the broker answers again.
C28_LoopNeverExits ==
    /\ [][ \A c \in Consumers :
             /\ pc'[c] \in LoopPositions \cup {"sleep"}
             /\ (pc[c] = "read" /\ pc'[c] # "read" /\ local'[c].message_id = 0)
                   => pc'[c] = "sleep"
             /\ (pc[c] = "sleep" /\ pc'[c] # "sleep") => pc'[c] = "read"
             /\ (pc[c] = "process_pdf" /\ Proceeds(c) /\ "result" \notin DOMAIN local'[c])
                   => pc'[c] = "status_failed" ]_vars
    /\ (last_delivered < Len(stream)) ~> (last_delivered = Len(stream))

\* A consumer waits after a read that failed while an entry that no consumer
\* has received is in the stream, and the other consumer is handling an
\* exception of the strategy.
C28_Witness ==
    \E c \in Consumers, d \in Consumers :
        /\ pc[c] = "sleep"
        /\ local[c].read_failed
        /\ last_delivered < Len(stream)
        /\ pc[d] = "status_failed"

\* ------------------------------------------------------------------- C29
\* Consumer c is between the delivery of an entry and the attempt to
\* acknowledge it.
Busy(c) == pc[c] \notin {"read", "down"}

\* C29: a consumer handles entries strictly one at a time.  A read delivers
\* one entry, to a consumer that holds none (the handling of its previous
\* entry has returned), and leaves the other consumers alone; a consumer that
\* is reading holds no entry, and one that is busy holds exactly the entry of
\* its last read, which is pending.
C29_OneEntryAtATime ==
    [][ /\ delivery_log' # delivery_log
           => /\ Len(delivery_log') = Len(delivery_log) + 1
              /\ SubSeq(delivery_log', 1, Len(delivery_log)) = delivery_log
              /\ \E c \in Consumers :
                    /\ ~Busy(c)
                    /\ local[c] = NoMessage
                    /\ Busy(c)'
                    /\ local'[c].message_id = Last(delivery_log')
                    /\ \A d \in Consumers \ {c} : pc'[d] = pc[d] /\ local'[d] = local[d]
        /\ \A c \in Consumers :
              /\ ~Busy(c)' => local'[c] = NoMessage
              /\ Busy(c)' => local'[c].message_id \in pel'
              /\ (Busy(c) /\ Busy(c)') => local'[c].message_id = local[c].message_id ]_vars

\* One consumer is handling an entry while a later entry waits in the stream
\* for it: the other process is down.
C29_Witness ==
    \E c \in Consumers, d \in Consumers :
        /\ Busy(c)
        /\ pc[c] \in {"process_pdf", "store_results"}
        /\ pc[d] = "down"
        /\ local[c].message_id = last_delivered
        /\ last_delivered < Len(stream)

\* ------------------------------------------------------------------- C30
Hung(c) == pc[c] = "hung"

\* Every entry of the stream was handled to its acknowledgment or is the one
\* a hung consumer holds.
AllHandled ==
    \A id \in EntryIds :
        \/ id \in acked
        \/ \E c \in Consumers : Hung(c) /\ local[c].message_id = id

\* C30: a consumer whose strategy call never returns makes no further
\* progress and keeps its entry pending, while every consumer that does not
\* hang keeps receiving the other entries and handles them to their
\* acknowledgment.
C30_HungConsumerAlone ==
    /\ [][ \A c \in Consumers :
             Hung(c) => /\ Hung(c)'
                        /\ local'[c] = local[c]
                        /\ local[c].message_id \in pel'
                        /\ Deliveries(local[c].message_id)' = 1 ]_vars
    /\ \A d \in Consumers : [](~Hung(d)) => []<>AllHandled

\* One consumer hangs with its entry, the other has read a later entry,
\* stored its result and acknowledged it.
C30_Witness ==
    \E c \in Consumers, id \in 1..MaxUploads :
        /\ Hung(c)
        /\ id \in Enqueued
        /\ EntryOf(id) > local[c].message_id
        /\ EntryOf(id) \in acked
        /\ Writes(id) = 1

\* ------------------------------------------------------------------- C31
\* Entry `after` is entry `before` with exactly the fields of body
\* overwritten or added.
Merged(before, body, after) ==
    /\ DOMAIN after = DOMAIN before \cup DOMAIN body
    /\ \A k \in DOMAIN body : after[k] = body[k]
    /\ \A k \in DOMAIN before \ DOMAIN body : after[k] = before[k]

\* The register differs from ps at most in the entry of id.
OthersUnchanged(ps, id, after) ==
    /\ DOMAIN after = DOMAIN ps
    /\ \A other \in DOMAIN ps \ {id} : after[other] = ps[other]

\* C31: POST /update-status for a known id overwrites exactly the fields of
\* the request body, leaves the other fields of the entry and the entries of
\* the other ids as they were, and is answered 200; this for a request of any
\* client and for the updates the worker sends.
C31_UpdateMerges ==
    [][ \A id \in DOMAIN processing_status :
          /\ \A body \in Bodies :
                update_status_request(id, body)
                  => /\ Merged(processing_status[id], body, processing_status'[id])
                     /\ OthersUnchanged(processing_status, id, processing_status')
                     /\ response'.status_code = 200
          /\ \A c \in Consumers :
                (StatusUpdate(c, id) /\ processing_status' # processing_status)
                  => /\ Merged(processing_status[id], Sending(c), processing_status'[id])
                     /\ OthersUnchanged(processing_status, id, processing_status') ]_vars

\* Two jobs are registered; one got the `processing` update of the worker and
\* a body with new fields, and still has its filename and its parser; the
\* other is as it was submitted.
C31_Witness ==
    \E id \in DOMAIN processing_status, other \in DOMAIN processing_status :
        /\ id # other
        /\ processing_status[id].status = PROCESSING
        /\ "note" \in DOMAIN processing_status[id]
        /\ processing_status[id].filename = <<"a">> \o DotPdf
        /\ processing_status[id].parser = PYPDF
        /\ processing_status[other] =
              register_pending(<< >>, other, <<"a">> \o DotPdf, PYPDF)[other]

\* ------------------------------------------------------------------- C32
\* C32: summarization is best effort.  With a model whose call raises,
\* summarize_with_gemini returns the fallback analysis (confidence 0.3), and
\* without a model it returns None; and whenever the extraction succeeded the
\* strategy call returns a result to the worker, which goes on to the result
\* write and not to the `failed` update.
C32_SummarizationBestEffort ==
    [][ \A c \in Consumers, gemini_model \in GeminiModels, answer \in GeminiAnswers :
          /\ (gemini_model # None /\ answer # "answer")
                => summarize_with_gemini(gemini_model, answer) = FallbackAnalysis
          /\ summarize_with_gemini(None, answer) = None
          /\ process_pdf_strategy(c, TRUE, gemini_model, answer)
                => /\ pc'[c] = "store_results"
                   /\ "result" \in DOMAIN local'[c] ]_vars

\* ------------------------------------------------------------------- C33
\* C33: with a fairly scheduled worker, a strategy that returns, and a broker
\* and a status endpoint that answer, every job whose submission returned a
\* job id (its entry is in the stream) eventually has status `completed` or
\* `failed` in the register.
C33_EveryJobTerminates ==
    \A id \in 1..MaxUploads :
       (id \in Enqueued) ~> (id \in JobIds /\ processing_status[id].status \in Terminal)

\* ------------------------------------------------------------------- C34
\* C34: while the process that holds the register lives, the job id of every
\* entry is a key of the register when the gateway appends the entry, and so
\* is the id of every status update a consumer sends for a delivered entry:
\* the endpoint finds the id and does not answer 404 (main.py:150-151).
C34_KnownIdAtAppend ==
    [][ /\ \A req \in inflight :
             add_to_stream(req, TRUE) => req.processing_id \in JobIds
        /\ \A i \in 1..Len(stream') :
             i > Len(stream) => stream'[i].processing_id \in JobIds
        /\ \A c \in Consumers, id \in 1..MaxUploads :
             StatusUpdate(c, id)
                => id \in DOMAIN processing_status ]_vars

\* A consumer has sent the `processing` update of the first job, which the
\* register shows, while the submission of the second job is suspended in
\* its append.
C34_Witness ==
    \E c \in Consumers, req \in inflight :
       /\ pc[c] = "process_pdf"
       /\ local[c].processing_id \in JobIds
       /\ local[c].processing_id # req.processing_id
       /\ processing_status[local[c].processing_id].status = PROCESSING
       /\ req.processing_id \in JobIds

\* ------------------------------------------------------------------- C35
\* C35: a job the worker reports `failed` has no result record written: no
\* consumer is about to send, or has sent, the `failed` update of a job whose
\* record was written, and no register entry is `failed` with a record
\* written.
C35_FailedImpliesNotStored ==
    /\ \A c \in Consumers :
          /\ pc[c] = "status_failed" => Writes(local[c].processing_id) = 0
          /\ "sent" \in DOMAIN local[c]
                => \A i \in 1..Len(local[c].sent) :
                      local[c].sent[i].status = FAILED
                         => Writes(local[c].processing_id) = 0
    /\ \A id \in JobIds :
          processing_status[id].status = FAILED => Writes(id) = 0

\* The strategy raised for one job, which is `failed` with its entry
\* acknowledged and no record; the record of another job was written and
\* that job is `completed`.
C35_Witness ==
    \E id \in JobIds, other \in JobIds :
       /\ processing_status[id].status = FAILED
       /\ processing_status[id].message = FailedMessage("EOF marker not found")
       /\ Writes(id) = 0
       /\ id \notin DOMAIN results
       /\ id \in Enqueued /\ EntryOf(id) \in acked
       /\ processing_status[other].status = COMPLETED
       /\ Writes(other) = 1

\* ------------------------------------------------------------------- C36
\* The keys of the result payload, pdf_consumer.py:98-117.
ResultKeys == {"extraction", "analysis", "processing_time", "filename", "parser_used"}

\* C36: a register entry that is `completed` carries the result payload with
\* its five parts, and an entry that is `pending`, `processing` or `failed`
\* carries none; an entry becomes `completed` in the step that gives it the
\* payload.
C36_CompletedCarriesResult ==
    /\ [](\A id \in JobIds :
            LET entry == processing_status[id] IN
            IF entry.status = COMPLETED
            THEN /\ "result" \in DOMAIN entry
                 /\ DOMAIN entry.result = ResultKeys
                 /\ entry.result.filename = entry.filename
            ELSE "result" \notin DOMAIN entry)
    /\ [][ \A id \in JobIds \cap DOMAIN processing_status' :
             ("result" \in DOMAIN processing_status'[id])
                 # ("result" \in DOMAIN processing_status[id])
             => /\ processing_status[id].status # COMPLETED
                /\ processing_status'[id].status = COMPLETED ]_vars

\* One job is `completed` with its payload, another is `failed` without
\* one, and a consumer is sending the `completed` update of neither.
C36_Witness ==
    \E id \in JobIds, other \in JobIds :
       /\ processing_status[id].status = COMPLETED
       /\ DOMAIN processing_status[id].result = ResultKeys
       /\ processing_status[id].result.extraction.text = <<37, 0>>
       /\ processing_status[other].status = FAILED
       /\ "result" \notin DOMAIN processing_status[other]
       /\ \A c \in Consumers : pc[c] # "status_completed"

\* ------------------------------------------------------------------- C37
\* Consumer c is inside its loop with the flag cleared by stop().
Stopped(c) == ~running[c] /\ pc[c] \notin {"returned", "down"}

\* C37: once stop() was called on a consumer whose loop runs, the consumer
\* issues no further read (the read it is suspended in may still be
\* answered), it leaves the loop only when the iteration is over, with the
\* entry it had read handled to its acknowledgment, and consume_messages
\* eventually returns; a consumer whose loop is not running starts with the
\* flag set whatever stop() did before, and does not return while it is set.
C37_StopEndsLoop ==
    /\ [][ \A c \in Consumers :
             /\ (Stopped(c) /\ pc[c] # "read") => pc'[c] # "read"
             /\ (pc'[c] = "returned" /\ pc[c] # "returned")
                   => /\ ~running[c]
                      /\ pc[c] \in {"ack", "sleep"}
                      /\ local'[c] = NoMessage
             /\ (pc[c] = "returned" /\ pc'[c] # "returned")
                   => running'[c] /\ pc'[c] = "read" ]_vars
    /\ \A c \in Consumers : Stopped(c) ~> (pc[c] = "returned")

\* A consumer was stopped while it handled an entry: the entry is
\* acknowledged, consume_messages has returned, and the next entry waits in
\* the stream, read by nobody, while the other consumer sleeps.
C37_Witness ==
    \E c \in Consumers, d \in Consumers :
       /\ pc[c] = "returned" /\ ~running[c]
       /\ acked # {}
       /\ \A i \in 1..Len(delivery_log) : delivery_log[i] \in acked
       /\ last_delivered < Len(stream)
       /\ d # c /\ pc[d] = "sleep" /\ running[d]

====
